---- MODULE Spec2Model ----
(***************************************************************************)
(* Model of the MiWifi Luci client (custom_components/miwifi/luci.py) and  *)
(* of the capability sweep (custom_components/miwifi/self_check.py).       *)
(*                                                                         *)
(* Every coroutine of the client suspends once, at the transport call, so  *)
(* each operation is two steps: the call (the URL is built and the request *)
(* is handed to the transport) and the resolution (the transport answers   *)
(* or fails and the rest of the coroutine runs).                           *)
(***************************************************************************)
EXTENDS Integers, Sequences, FiniteSets, TLC

VARIABLES
    token,      \* LuciClient._token
    task,       \* per caller: the client coroutine it is suspended in
    result,     \* per caller: how its last client coroutine ended
    sweep,      \* the async_self_check coroutine: position, locals
    sink,       \* the messages handed to pn.async_create
    clock,      \* int(time.time()): the second the wall clock shows
    sent        \* the login attempts made so far: second, random part, nonce

vars == <<token, task, result, sweep, sink, clock, sent>>

(***************************************************************************)
(* Bounds of the model.                                                    *)
(***************************************************************************)
\* result codes the server answers with range over -MaxCode .. MaxCode
MaxCode == 1
\* the values a wifi index / led state argument is drawn from: 0 .. MaxArg
MaxArg == 1
\* the wall clock shows the seconds 0 .. MaxClock
MaxClock == 1
\* int(random.random() * 1000) ranges over 0 .. MaxRand (0 .. 999 in the code)
MaxRand == 1

Callers == {"c1", "c2"}
TokenValues == {"t1", "t2"}
Codes == (0 - MaxCode) .. MaxCode

(***************************************************************************)
(* Values.                                                                 *)
(***************************************************************************)
\* _token: str | None
None == [held |-> FALSE, val |-> ""]
Tok(s) == [held |-> TRUE, val |-> s]

\* Str rendering None as the empty text
Str_EmptyForNone(tok) == IF tok.held THEN tok.val ELSE ""

\* "{}".format(token): None is rendered as the text None
Str(tok) == IF tok.held THEN tok.val ELSE "None"

\* the status login() accepts
HTTP_OK == 200
Statuses == {HTTP_OK, 201, 401}
Is2xx(status) == status >= 200 /\ status < 300

\* a decoded JSON object, as far as the client looks at it
MkDict(hasToken, tk, hasCode, code) ==
    [hasToken |-> hasToken, token |-> tk, hasCode |-> hasCode, code |-> code]
NoDict == MkDict(FALSE, "", FALSE, 0)
HasKey(d, key) ==
    CASE key = "token" -> d.hasToken
      [] key = "code" -> d.hasCode
      [] OTHER -> FALSE

\* response.content: text that is a JSON object, or text that is no JSON
JsonContent(d) == [valid |-> TRUE, dict |-> d]
Malformed == [valid |-> FALSE, dict |-> NoDict]

\* what the transport does with a request: it raises HTTPError or answers
TransportFailure == [err |-> TRUE, status |-> 0, content |-> Malformed]
Answer(status, content) == [err |-> FALSE, status |-> status, content |-> content]
NoResp == [err |-> FALSE, status |-> 0, content |-> Malformed]

LoginDicts ==
    {MkDict(FALSE, "", hc, 0) : hc \in BOOLEAN}
        \cup {MkDict(TRUE, t, hc, 0) : t \in TokenValues, hc \in BOOLEAN}
GetDicts ==
    {MkDict(FALSE, "", FALSE, 0)} \cup {MkDict(FALSE, "", TRUE, c) : c \in Codes}

LoginResponses ==
    {TransportFailure}
        \cup {Answer(s, JsonContent(d)) : s \in Statuses, d \in LoginDicts}
        \cup {Answer(s, Malformed) : s \in Statuses}
GetResponses ==
    {TransportFailure}
        \cup {Answer(s, JsonContent(d)) : s \in {HTTP_OK, 401}, d \in GetDicts}
        \cup {Answer(s, Malformed) : s \in {HTTP_OK, 401}}
LogoutResponses ==
    {TransportFailure, Answer(HTTP_OK, Malformed), Answer(401, Malformed)}

(***************************************************************************)
(* How a coroutine ends.                                                   *)
(***************************************************************************)
Return(d) == [kind |-> "return", exc |-> "", data |-> d]
Raise(e) == [kind |-> "raise", exc |-> e, data |-> NoDict]
Pending == [kind |-> "none", exc |-> "", data |-> NoDict]

\* except HTTPError: the handler takes HTTPError and nothing else
ExceptHTTPError(exc) == exc = "HTTPError"

\* json.loads(response.content)
json_loads(content) ==
    IF content.valid THEN Return(content.dict) ELSE Raise("JSONDecodeError")

\* the body of the try block of login() and of get(): the transport call,
\* then json.loads of the answer
TryRequestAndDecode(resp) ==
    IF resp.err THEN Raise("HTTPError") ELSE json_loads(resp.content)

\* try/except of login() and get(): HTTPError becomes LuciConnectionException,
\* any other exception leaves the coroutine as it is
TryExcept(resp) ==
    LET t == TryRequestAndDecode(resp)
    IN  IF t.kind = "raise" /\ ExceptHTTPError(t.exc)
        THEN Raise("LuciConnectionException")
        ELSE t

(***************************************************************************)
(* URLs and requests.                                                      *)
(***************************************************************************)
NoStok == [present |-> FALSE, val |-> ""]
Stok(tok) == [present |-> TRUE, val |-> Str(tok)]

\* "{}/api/xqsystem/login".format(self._url)
LoginUrl == [stok |-> NoStok, root |-> "api", path |-> "xqsystem/login"]

\* LogoutUrl without the token segment
LogoutUrl_NoStok(tok) == [stok |-> NoStok, root |-> "web", path |-> "logout"]

\* "{}/;stok={}/web/logout".format(self._url, self._token)
LogoutUrl(tok) == [stok |-> Stok(tok), root |-> "web", path |-> "logout"]

\* GetUrl leaving the token segment out when no token is held
GetUrl_SkipWhenNone(tok, path, use_stok) ==
    [stok |-> IF use_stok /\ tok.held THEN Stok(tok) ELSE NoStok,
     root |-> "api", path |-> path]

\* "{}/{}api/{}".format(self._url, ";stok={}/".format(self._token) if use_stok else "", path)
GetUrl(tok, path, use_stok) ==
    [stok |-> IF use_stok THEN Stok(tok) ELSE NoStok, root |-> "api", path |-> path]

NoUrl == [stok |-> NoStok, root |-> "", path |-> ""]
\* a request: the verb, the URL and, in the form of the login POST, the nonce
NoReq == [verb |-> "", url |-> NoUrl, nonce |-> ""]
Post(url, nonce) == [verb |-> "POST", url |-> url, nonce |-> nonce]
Get(url) == [verb |-> "GET", url |-> url, nonce |-> ""]

(***************************************************************************)
(* The nonce of a login attempt.                                           *)
(***************************************************************************)
\* stand-ins for str(CLIENT_NONCE_TYPE) and for the text of get_mac_address(),
\* both fixed for the life of the process
CLIENT_NONCE_TYPE == "0"
get_mac_address == "00:00:00:00:00:01"

Rands == 0 .. MaxRand

\* generate_nonce without the random part
generate_nonce_NoRandom(seconds, rnd) ==
    CLIENT_NONCE_TYPE \o "_" \o get_mac_address \o "_" \o ToString(seconds)

\* "{}_{}_{}_{}".format(CLIENT_NONCE_TYPE, self.get_mac_address(),
\*     int(time.time()), int(random.random() * 1000))
generate_nonce(seconds, rnd) ==
    CLIENT_NONCE_TYPE \o "_" \o get_mac_address \o "_" \o ToString(seconds)
        \o "_" \o ToString(rnd)

\* one login attempt as the server sees it
Attempt(seconds, rnd) ==
    [seconds |-> seconds, rnd |-> rnd, nonce |-> generate_nonce(seconds, rnd)]

(***************************************************************************)
(* login(), logout(), get(): what each makes of the transport's answer.    *)
(***************************************************************************)
\* LoginRejects with the two tests joined by "and"
LoginRejects_And(status, data) == status # HTTP_OK /\ ~HasKey(data, "token")

\* if response.status_code != 200 or "token" not in data: raise LuciTokenException()
LoginRejects(status, data) == status # HTTP_OK \/ ~HasKey(data, "token")

\* login() from the transport call on
LoginOutcome(resp) ==
    LET t == TryExcept(resp)
    IN  IF t.kind = "raise" THEN t
        ELSE IF LoginRejects(resp.status, t.data) THEN Raise("LuciTokenException")
        ELSE Return(t.data)

\* LoginNewToken storing the token only when none is held yet
LoginNewToken_KeepHeld(tok, resp) ==
    IF LoginOutcome(resp).kind = "return" /\ ~tok.held
    THEN Tok(resp.content.dict.token)
    ELSE tok

\* LoginNewToken dropping the held token when the login fails
LoginNewToken_ClearOnFailure(tok, resp) ==
    IF LoginOutcome(resp).kind = "return" THEN Tok(resp.content.dict.token) ELSE None

\* self._token after login(): assigned data["token"] on the path that returns
LoginNewToken(tok, resp) ==
    IF LoginOutcome(resp).kind = "return" THEN Tok(resp.content.dict.token) ELSE tok

\* logout() from the transport call on: HTTPError is logged and dropped, the
\* answer is logged, the coroutine returns None
LogoutOutcome(resp) ==
    LET exc == IF resp.err THEN "HTTPError" ELSE ""
    IN  IF exc # "" /\ ~ExceptHTTPError(exc) THEN Raise(exc) ELSE Return(NoDict)

\* self._token after logout(): the method assigns nothing to it
LogoutNewToken(tok, resp) == tok

\* GetRejects taking every nonzero code for a rejection
GetRejects_NonZero(data) == ~HasKey(data, "code") \/ data.code # 0

\* if "code" not in data or data["code"] > 0: raise LuciTokenException()
GetRejects(data) == ~HasKey(data, "code") \/ data.code > 0

\* get() from the transport call on
GetOutcome(resp) ==
    LET t == TryExcept(resp)
    IN  IF t.kind = "raise" THEN t
        ELSE IF GetRejects(t.data) THEN Raise("LuciTokenException")
        ELSE Return(t.data)

\* GetNewToken dropping the token when the server rejects the call
GetNewToken_ClearOnReject(tok, resp) ==
    IF GetOutcome(resp) = Raise("LuciTokenException") THEN None ELSE tok

\* self._token after get(): the method assigns nothing to it
GetNewToken(tok, resp) == tok

(***************************************************************************)
(* The endpoint operations of the client.                                  *)
(***************************************************************************)
NoArgMethods ==
    {"topo_graph", "init_info", "status", "new_status", "mode", "wifi_status",
     "wifi_detail_all", "wan_info", "reboot", "device_list", "wifi_connect_devices"}
IndexMethods == {"wifi_turn_on", "wifi_turn_off"}
ClientMethods == NoArgMethods \cup IndexMethods \cup {"led"}

\* everything getattr(client, name) finds on a LuciClient
ClientAttrs ==
    ClientMethods
        \cup {"login", "logout", "get", "sha1", "get_mac_address", "generate_nonce",
              "generate_password_hash", "_client", "_ip", "_password", "_timeout",
              "_token", "_url"}

NoArg == [given |-> FALSE, val |-> 0]
Arg(n) == [given |-> TRUE, val |-> n]
Invoke(name, arg) == [name |-> name, arg |-> arg]

\* the calls a caller can make: led(state) takes None or a number, the wifi
\* switches take an index
Invocations ==
    {Invoke(m, NoArg) : m \in NoArgMethods \cup {"led"}}
        \cup {Invoke(m, Arg(n)) : m \in IndexMethods \cup {"led"}, n \in 0 .. MaxArg}

\* the path literal each operation hands to get()
MethodPath(name, arg) ==
    CASE name = "topo_graph" -> "misystem/topo_graph"
      [] name = "init_info" -> "xqsystem/init_info"
      [] name = "status" -> "misystem/status"
      [] name = "new_status" -> "misystem/newstatus"
      [] name = "mode" -> "xqnetwork/mode"
      [] name = "wifi_status" -> "xqnetwork/wifi_status"
      [] name = "wifi_detail_all" -> "xqnetwork/wifi_detail_all"
      [] name = "wan_info" -> "xqnetwork/wan_info"
      [] name = "reboot" -> "xqsystem/reboot"
      [] name = "led" ->
            "misystem/led" \o (IF arg.given THEN "?on=" \o ToString(arg.val) ELSE "")
      [] name = "wifi_turn_on" -> "xqnetwork/wifi_up?index=" \o ToString(arg.val)
      [] name = "wifi_turn_off" -> "xqnetwork/wifi_down?index=" \o ToString(arg.val)
      [] name = "device_list" -> "misystem/devicelist"
      [] name = "wifi_connect_devices" -> "xqnetwork/wifi_connect_devices"

\* MethodUseStok with topo_graph left at the default use_stok=True
MethodUseStok_Always(name) == TRUE

\* the use_stok argument each operation hands to get()
MethodUseStok(name) == name # "topo_graph"

\* the request an endpoint operation issues, with the token held at the call
MethodRequest(tok, inv) ==
    Get(GetUrl(tok, MethodPath(inv.name, inv.arg), MethodUseStok(inv.name)))

(***************************************************************************)
(* Callers of the client.                                                  *)
(***************************************************************************)
Idle == [pc |-> "idle", op |-> "none", req |-> NoReq]
Waiting(op, req) == [pc |-> "wait", op |-> op, req |-> req]
NoResult == [op |-> "none", resp |-> NoResp, out |-> Pending]
Ended(op, resp, out) == [op |-> op, resp |-> resp, out |-> out]

\* login() up to its await: the request is built and posted
LoginCall(c) ==
    /\ task[c].pc = "idle"
    /\ \E rnd \in Rands :
        LET a == Attempt(clock, rnd)
        IN  /\ task' = [task EXCEPT ![c] = Waiting("login", Post(LoginUrl, a.nonce))]
            /\ sent' = sent \cup {a}
    /\ result' = [result EXCEPT ![c] = NoResult]
    /\ UNCHANGED <<token, sweep, sink, clock>>

\* login() from its await on
LoginResolve(c) ==
    /\ task[c].pc = "wait" /\ task[c].op = "login"
    /\ \E resp \in LoginResponses :
        /\ token' = LoginNewToken(token, resp)
        /\ result' = [result EXCEPT ![c] = Ended("login", resp, LoginOutcome(resp))]
    /\ task' = [task EXCEPT ![c] = Idle]
    /\ UNCHANGED <<sweep, sink, clock, sent>>

\* logout() up to its await; with no token held it returns at once
LogoutCall(c) ==
    /\ task[c].pc = "idle"
    /\ IF ~token.held
       THEN /\ result' = [result EXCEPT ![c] = Ended("logout", NoResp, Return(NoDict))]
            /\ UNCHANGED task
       ELSE /\ task' = [task EXCEPT ![c] = Waiting("logout", Get(LogoutUrl(token)))]
            /\ result' = [result EXCEPT ![c] = NoResult]
    /\ UNCHANGED <<token, sweep, sink, clock, sent>>

\* logout() from its await on
LogoutResolve(c) ==
    /\ task[c].pc = "wait" /\ task[c].op = "logout"
    /\ \E resp \in LogoutResponses :
        /\ token' = LogoutNewToken(token, resp)
        /\ result' = [result EXCEPT ![c] = Ended("logout", resp, LogoutOutcome(resp))]
    /\ task' = [task EXCEPT ![c] = Idle]
    /\ UNCHANGED <<sweep, sink, clock, sent>>

\* an endpoint operation up to the await of get()
GetCall(c) ==
    /\ task[c].pc = "idle"
    /\ \E inv \in Invocations :
        task' = [task EXCEPT ![c] = Waiting("get", MethodRequest(token, inv))]
    /\ result' = [result EXCEPT ![c] = NoResult]
    /\ UNCHANGED <<token, sweep, sink, clock, sent>>

\* get() from its await on
GetResolve(c) ==
    /\ task[c].pc = "wait" /\ task[c].op = "get"
    /\ \E resp \in GetResponses :
        /\ token' = GetNewToken(token, resp)
        /\ result' = [result EXCEPT ![c] = Ended("get", resp, GetOutcome(resp))]
    /\ task' = [task EXCEPT ![c] = Idle]
    /\ UNCHANGED <<sweep, sink, clock, sent>>

(***************************************************************************)
(* The capability sweep.                                                   *)
(***************************************************************************)
\* the three status symbols the catalog and the report use: the green circle
\* (U+1F7E2), the red circle (U+1F534) and the white circle (U+26AA)
GREEN == "(U+1F7E2)"
RED == "(U+1F534)"
WHITE == "(U+26AA)"

\* if method in [green, red, white]
IsSentinel(method) == method \in {GREEN, RED, WHITE}

\* (code, method) pairs, in declaration order
SELF_CHECK_METHODS ==
    << <<"xqsystem/login", GREEN>>,
       <<"xqsystem/init_info", GREEN>>,
       <<"misystem/status", "status">>,
       <<"xqnetwork/mode", "mode">>,
       <<"misystem/topo_graph", "topo_graph">>,
       <<"xqsystem/check_rom_update", "rom_update">>,
       <<"xqnetwork/wan_info", "wan_info">>,
       <<"misystem/led", "led">>,
       <<"xqnetwork/wifi_detail_all", "wifi_detail_all">>,
       <<"xqnetwork/wifi_diag_detail_all", "wifi_diag_detail_all">>,
       <<"xqnetwork/avaliable_channels", "avaliable_channels">>,
       <<"xqnetwork/wifi_connect_devices", "wifi_connect_devices">>,
       <<"misystem/devicelist", "device_list">>,
       <<"xqnetwork/wifiap_signal", "wifi_ap_signal">>,
       <<"misystem/newstatus", "new_status">>,
       <<"xqsystem/reboot", WHITE>>,
       <<"xqsystem/upgrade_rom", WHITE>>,
       <<"xqsystem/flash_permission", WHITE>>,
       <<"xqnetwork/set_wifi", WHITE>>,
       <<"xqnetwork/set_wifi_without_restart", WHITE>> >>

CodeOf(i) == SELF_CHECK_METHODS[i][1]
MethodOf(i) == SELF_CHECK_METHODS[i][2]

\* data[code] = value on a dict, which keeps its keys in insertion order
DictSet(d, key, value) ==
    IF \E i \in 1 .. Len(d) : d[i].key = key
    THEN [i \in 1 .. Len(d) |-> IF d[i].key = key THEN [key |-> key, value |-> value] ELSE d[i]]
    ELSE Append(d, [key |-> key, value |-> value])

DictHas(d, key) == \E i \in 1 .. Len(d) : d[i].key = key
DictGet(d, key) == d[CHOOSE i \in 1 .. Len(d) : d[i].key = key].value

\* except LuciError: LuciConnectionException and LuciTokenException are the
\* two LuciErrors
IsLuciError(exc) == exc \in {"LuciConnectionException", "LuciTokenException"}

\* RecordSentinel without the assignment: the branch only continues
RecordSentinel_NotRecorded(d, code, method) == d

\* the sentinel branch of the loop: data[code] = method
RecordSentinel(d, code, method) == DictSet(d, code, method)

\* the probe branch of the loop once action() has ended: data[code] is set
\* on a return and on a LuciError
RecordProbe(d, code, out) ==
    IF out.kind = "return" THEN DictSet(d, code, GREEN)
    ELSE IF IsLuciError(out.exc) THEN DictSet(d, code, RED)
    ELSE d

\* whether an exception raised by action() leaves async_self_check
ProbeEscapes(out) == out.kind = "raise" /\ ~IsLuciError(out.exc)

\* AfterProbeCall for a probe that is started and not awaited
AfterProbeCall_NotAwaited == "loop"

\* await action(): the sweep is suspended until the probe has ended
AfterProbeCall == "await"

\* the text handed to the sink: the title, then one line per item of data
Message(d) == [title |-> "Router not supported", lines |-> d]

SweepIdle == [pc |-> "idle", idx |-> 1, data |-> <<>>, calls |-> <<>>, req |-> NoReq, exc |-> ""]

\* async_self_check is called
SweepStart ==
    /\ sweep.pc = "idle"
    /\ sweep' = [sweep EXCEPT !.pc = "loop"]
    /\ UNCHANGED <<token, task, result, sink, clock, sent>>

\* async_self_check from the head of a loop iteration to its next await, or
\* from the end of the loop to the end of the coroutine
SweepStep ==
    /\ sweep.pc = "loop"
    /\ IF sweep.idx <= Len(SELF_CHECK_METHODS)
       THEN LET code == CodeOf(sweep.idx)
                method == MethodOf(sweep.idx)
            IN  IF IsSentinel(method)
                THEN /\ sweep' = [sweep EXCEPT !.data = RecordSentinel(@, code, method),
                                               !.idx = @ + 1]
                     /\ UNCHANGED sink
                ELSE IF method \notin ClientAttrs
                THEN \* getattr(client, method) raises
                     /\ sweep' = [sweep EXCEPT !.pc = "raised", !.exc = "AttributeError"]
                     /\ UNCHANGED sink
                ELSE \* action() runs up to the await inside get()
                     /\ sweep' = [sweep EXCEPT
                            !.pc = AfterProbeCall,
                            !.calls = Append(@, [code |-> code, method |-> method,
                                                 path |-> MethodPath(method, NoArg),
                                                 ended |-> "pending"]),
                            !.req = MethodRequest(token, Invoke(method, NoArg))]
                     /\ UNCHANGED sink
       ELSE IF "ip" \notin ClientAttrs
            THEN \* client.ip in the title raises
                 /\ sweep' = [sweep EXCEPT !.pc = "raised", !.exc = "AttributeError"]
                 /\ UNCHANGED sink
            ELSE /\ sink' = Append(sink, Message(sweep.data))
                 /\ sweep' = [sweep EXCEPT !.pc = "done"]
    /\ UNCHANGED <<token, task, result, clock, sent>>

\* async_self_check from the await of a probe to the head of the next iteration
SweepResolve ==
    /\ sweep.pc = "await"
    /\ \E resp \in GetResponses :
        LET out == GetOutcome(resp)
            n == Len(sweep.calls)
            ended == IF out.kind = "return" THEN "return" ELSE out.exc
        IN  /\ token' = GetNewToken(token, resp)
            /\ sweep' = [sweep EXCEPT
                    !.calls = [@ EXCEPT ![n].ended = ended],
                    !.req = NoReq,
                    !.data = RecordProbe(@, CodeOf(sweep.idx), out),
                    !.pc = IF ProbeEscapes(out) THEN "raised" ELSE "loop",
                    !.exc = IF ProbeEscapes(out) THEN out.exc ELSE "",
                    !.idx = IF ProbeEscapes(out) THEN @ ELSE @ + 1]
    /\ UNCHANGED <<task, result, sink, clock, sent>>

(***************************************************************************)
(* Specification.                                                          *)
(***************************************************************************)
Init ==
    /\ token = None
    /\ task = [c \in Callers |-> Idle]
    /\ result = [c \in Callers |-> NoResult]
    /\ sweep = SweepIdle
    /\ sink = <<>>
    /\ clock = 0
    /\ sent = {}

\* two callers share the client
Next ==
    \/ \E c \in Callers : LoginCall(c)
    \/ \E c \in Callers : LoginResolve(c)
    \/ \E c \in Callers : LogoutCall(c)
    \/ \E c \in Callers : LogoutResolve(c)
    \/ \E c \in Callers : GetCall(c)
    \/ \E c \in Callers : GetResolve(c)

Spec == Init /\ [][Next]_vars

\* the sweep runs on the client while one caller uses it too
SweepCallers == {"c1"}

SweepNext ==
    \/ SweepStart
    \/ SweepStep
    \/ SweepResolve
    \/ \E c \in SweepCallers : LoginCall(c)
    \/ \E c \in SweepCallers : LoginResolve(c)
    \/ \E c \in SweepCallers : LogoutCall(c)
    \/ \E c \in SweepCallers : LogoutResolve(c)
    \/ \E c \in SweepCallers : GetCall(c)
    \/ \E c \in SweepCallers : GetResolve(c)

SweepSpec == Init /\ [][SweepNext]_vars

\* a second of wall-clock time passes
Tick ==
    /\ clock < MaxClock
    /\ clock' = clock + 1
    /\ UNCHANGED <<token, task, result, sweep, sink, sent>>

\* the callers log in again and again while time passes
NonceNext ==
    \/ Tick
    \/ \E c \in Callers : LoginCall(c)
    \/ \E c \in Callers : LoginResolve(c)

NonceSpec == Init /\ [][NonceNext]_vars

(***************************************************************************)
(* Properties of the session: login(), logout(), get().                    *)
(***************************************************************************)
\* caller c's login() / logout() / get() runs from its await to its end in this step
LoginEnds(c) == task[c].pc = "wait" /\ task[c].op = "login" /\ task'[c].pc = "idle"
LogoutEnds(c) == result'[c].op = "logout" /\ result'[c] # result[c]
GetEnds(c) == task[c].pc = "wait" /\ task[c].op = "get" /\ task'[c].pc = "idle"

\* the answer was decoded: the transport answered and the body is JSON
Decoded(resp) == ~resp.err /\ resp.content.valid

\* C1: whenever a logout() ends, it ends by returning, and the session holds
\* no token afterwards, whether the logout request succeeded or failed in the
\* transport.
C1_LogoutClearsToken ==
    [][\A c \in Callers :
          LogoutEnds(c) => result'[c].out.kind = "return" /\ ~token'.held]_vars

\* C2: a login() whose answer decodes to a body without a token, or whose
\* decoded answer has a status outside 2xx, ends in LuciTokenException and
\* returns no payload.
C2_LoginRejectionRaises ==
    \A c \in Callers :
        (/\ result[c].op = "login"
         /\ Decoded(result[c].resp)
         /\ \/ ~HasKey(result[c].resp.content.dict, "token")
            \/ ~Is2xx(result[c].resp.status))
        => result[c].out = Raise("LuciTokenException")

\* both cases of C2 have happened: a 200 answer without a token, and an
\* answer with a token and a status outside 2xx
C2_Witness ==
    \E c, d \in Callers :
        /\ result[c].op = "login" /\ Decoded(result[c].resp)
        /\ result[c].resp.status = HTTP_OK
        /\ ~HasKey(result[c].resp.content.dict, "token")
        /\ result[c].out.kind = "raise"
        /\ result[d].op = "login" /\ Decoded(result[d].resp)
        /\ ~Is2xx(result[d].resp.status)
        /\ HasKey(result[d].resp.content.dict, "token")
        /\ result[d].out.kind = "raise"

\* C3 as stated: a login() answered with any 2xx status and a body with a
\* token stores that token and returns the decoded body, whatever was held.
C3_Any2xxLoginStores ==
    [][\A c \in Callers :
          (/\ LoginEnds(c)
           /\ Decoded(result'[c].resp)
           /\ Is2xx(result'[c].resp.status)
           /\ HasKey(result'[c].resp.content.dict, "token"))
          => /\ token' = Tok(result'[c].resp.content.dict.token)
             /\ result'[c].out = Return(result'[c].resp.content.dict)]_vars

\* C3 amended: a login() answered with status 200 and a body with a token
\* stores that token and returns the decoded body, whatever was held.
C3_Status200LoginStores ==
    [][\A c \in Callers :
          (/\ LoginEnds(c)
           /\ Decoded(result'[c].resp)
           /\ result'[c].resp.status = HTTP_OK
           /\ HasKey(result'[c].resp.content.dict, "token"))
          => /\ token' = Tok(result'[c].resp.content.dict.token)
             /\ result'[c].out = Return(result'[c].resp.content.dict)]_vars

\* two logins have returned different tokens and the session holds one of
\* them: a held token was overwritten
C3_Witness ==
    \E c, d \in Callers :
        /\ result[c].op = "login" /\ result[c].out.kind = "return"
        /\ result[d].op = "login" /\ result[d].out.kind = "return"
        /\ result[c].out.data.token # result[d].out.data.token
        /\ result[c].resp.status = HTTP_OK /\ result[d].resp.status = HTTP_OK
        /\ token = Tok(result[d].out.data.token)

\* C4: the token is absent at the start, and a step changes it only as the
\* end of a login() that returns (to the token returned) or as the end of a
\* logout() (to no token): the calls, get(), a failing login() and every
\* step of the sweep leave it as it is.
C4_TokenFrame ==
    /\ token = None
    /\ [][token' # token =>
            \E c \in Callers :
                \/ /\ LoginEnds(c)
                   /\ result'[c].out.kind = "return"
                   /\ token' = Tok(result'[c].out.data.token)
                \/ /\ LogoutEnds(c)
                   /\ token' = None]_vars

\* a token is held after a failed login, and after the sweep has issued and
\* resolved probes and ended
C4_Witness ==
    /\ token.held
    /\ result["c1"].op = "login" /\ result["c1"].out.kind = "raise"
    /\ sweep.pc = "raised"
    /\ Len(sweep.calls) >= 2

\* C5: a get() or login() whose transport call fails, or whose answer is not
\* JSON, ends in LuciConnectionException.
C5_UndecodableIsConnectionError ==
    \A c \in Callers :
        (/\ result[c].op \in {"get", "login"}
         /\ ~Decoded(result[c].resp))
        => result[c].out = Raise("LuciConnectionException")

\* C6 as stated: get() returns the decoded body only when its code is 0; a
\* body without a code or with any other code ends in LuciTokenException.
C6_OnlyCodeZeroReturns ==
    \A c \in Callers :
        (result[c].op = "get" /\ Decoded(result[c].resp))
        => LET d == result[c].resp.content.dict
           IN  IF HasKey(d, "code") /\ d.code = 0
               THEN result[c].out = Return(d)
               ELSE result[c].out = Raise("LuciTokenException")

\* C6 amended: get() returns the decoded body exactly when it has a code
\* that is 0 or negative; a body without a code or with a positive code ends
\* in LuciTokenException.
C6_CodeAtMostZeroReturns ==
    \A c \in Callers :
        (result[c].op = "get" /\ Decoded(result[c].resp))
        => LET d == result[c].resp.content.dict
           IN  IF HasKey(d, "code") /\ d.code <= 0
               THEN result[c].out = Return(d)
               ELSE result[c].out = Raise("LuciTokenException")

\* one get() returned a body with a negative code, another was rejected for
\* a positive code
C6_Witness ==
    \E c, d \in Callers :
        /\ result[c].op = "get" /\ result[c].out.kind = "return"
        /\ result[c].out.data.code < 0
        /\ result[d].op = "get" /\ Decoded(result[d].resp)
        /\ result[d].resp.content.dict.code > 0
        /\ result[d].out = Raise("LuciTokenException")

(***************************************************************************)
(* Properties of the capability sweep.                                     *)
(***************************************************************************)
SweepEnded == sweep.pc \in {"done", "raised"}

CatalogIndex == 1 .. Len(SELF_CHECK_METHODS)
SentinelSymbols == {GREEN, RED, WHITE}
SentinelIndex == {i \in CatalogIndex : MethodOf(i) \in SentinelSymbols}
ProbeableIndex == CatalogIndex \ SentinelIndex

\* the codes of the catalog, and those of its probeable entries, in order
RECURSIVE CodesFrom(_, _)
CodesFrom(i, keep) ==
    IF i > Len(SELF_CHECK_METHODS) THEN <<>>
    ELSE (IF i \in keep THEN <<CodeOf(i)>> ELSE <<>>) \o CodesFrom(i + 1, keep)

CallCodes == [k \in 1 .. Len(sweep.calls) |-> sweep.calls[k].code]
LineCodes(m) == [k \in 1 .. Len(m.lines) |-> m.lines[k].key]

MutatingMethods ==
    {"reboot", "upgrade_rom", "flash_permission", "set_wifi", "set_wifi_without_restart"}
MutatingPaths ==
    {"xqsystem/reboot", "xqsystem/upgrade_rom", "xqsystem/flash_permission",
     "xqnetwork/set_wifi", "xqnetwork/set_wifi_without_restart"}

\* C7: a sweep that has ended has issued one call per probeable entry of the
\* catalog, in declaration order, none twice and none skipped, and its
\* report has one line per catalog entry in catalog order.
C7_EveryProbeableEntryProbedOnce ==
    SweepEnded =>
        /\ CallCodes = CodesFrom(1, ProbeableIndex)
        /\ Len(sink) = 1
        /\ LineCodes(sink[Len(sink)]) = CodesFrom(1, CatalogIndex)

\* C8: the sweep issues no call for a catalog entry whose status is one of
\* the three sentinels, the status recorded for such an entry is its
\* sentinel, and no mutating operation is invoked.
C8_SentinelsNeverProbed ==
    /\ \A k \in 1 .. Len(sweep.calls) :
        /\ sweep.calls[k].method \notin SentinelSymbols
        /\ sweep.calls[k].method \notin MutatingMethods
        /\ sweep.calls[k].path \notin MutatingPaths
        /\ \A i \in SentinelIndex :
            sweep.calls[k].code # CodeOf(i) /\ sweep.calls[k].path # CodeOf(i)
    /\ sweep.req.url.path \notin MutatingPaths \cup {CodeOf(i) : i \in SentinelIndex}
    /\ \A i \in SentinelIndex :
        i < sweep.idx =>
            DictHas(sweep.data, CodeOf(i)) /\ DictGet(sweep.data, CodeOf(i)) = MethodOf(i)

\* the sweep has passed sentinel entries and has probes behind it and one in
\* flight
C8_Witness ==
    /\ \E i \in SentinelIndex : i < sweep.idx
    /\ Len(sweep.calls) >= 2
    /\ sweep.pc = "await"

\* C9: a sweep that has ended has handed exactly one message to the sink,
\* and no sweep hands over more than one.
C9_EndedSweepNotifiedOnce ==
    /\ Len(sink) <= 1
    /\ SweepEnded => Len(sink) = 1

\* C10: a probed entry is recorded as supported when its call returned and
\* as unsupported when it raised, and a probe that raised does not end the
\* sweep: the sweep goes on to the entries after it.
C10_FailingProbeDoesNotAbort ==
    /\ \A k \in 1 .. Len(sweep.calls) :
        /\ sweep.calls[k].ended = "return" =>
            DictGet(sweep.data, sweep.calls[k].code) = GREEN
        /\ sweep.calls[k].ended \notin {"return", "pending"} =>
            /\ DictHas(sweep.data, sweep.calls[k].code)
            /\ DictGet(sweep.data, sweep.calls[k].code) = RED
    /\ (\E k \in 1 .. Len(sweep.calls) : sweep.calls[k].ended \notin {"return", "pending"})
        => sweep.pc # "raised"

(***************************************************************************)
(* Properties of the requests: token segment, nonce, logout request.       *)
(***************************************************************************)
\* caller c's login() / logout() / get() runs up to its await in this step
LoginStarts(c) == task[c].pc = "idle" /\ task'[c].pc = "wait" /\ task'[c].op = "login"
LogoutStarts(c) == task[c].pc = "idle" /\ task'[c].pc = "wait" /\ task'[c].op = "logout"
GetStarts(c) == task[c].pc = "idle" /\ task'[c].pc = "wait" /\ task'[c].op = "get"

\* the token segment built while no token is held: ";stok=None/"
NoneSegment == [present |-> TRUE, val |-> "None"]

\* the server's decoded answer is a rejection: no code, or a positive code
Rejection(resp) ==
    /\ Decoded(resp)
    /\ ~resp.content.dict.hasCode \/ resp.content.dict.code > 0

\* C11: an endpoint call with use_stok made while no token is held (no login
\* has succeeded) issues a GET whose token segment is built from the absent
\* token, and when the server rejects that request the call ends in
\* LuciTokenException.
C11_CallBeforeLoginUsesAbsentToken ==
    [][\A c \in Callers :
          /\ (/\ GetStarts(c)
              /\ ~token.held
              /\ task'[c].req.url.path # "misystem/topo_graph")
             => /\ task'[c].req.verb = "GET"
                /\ task'[c].req.url.root = "api"
                /\ task'[c].req.url.stok = NoneSegment
          /\ (/\ GetEnds(c)
              /\ task[c].req.url.stok = NoneSegment
              /\ Rejection(result'[c].resp))
             => result'[c].out = Raise("LuciTokenException")]_vars

\* no login was ever attempted, one call has been rejected and ended in
\* LuciTokenException, another is in flight with the absent token
C11_Witness ==
    /\ sent = {} /\ ~token.held
    /\ \E c, d \in Callers :
        /\ result[c].op = "get" /\ Rejection(result[c].resp)
        /\ result[c].out = Raise("LuciTokenException")
        /\ task[d].pc = "wait" /\ task[d].op = "get"
        /\ task[d].req.url.stok = NoneSegment

\* C12 as stated: the nonce a login attempt sends was sent by no earlier
\* login attempt of the client.
C12_NonceNeverRepeats ==
    [][\A c \in Callers :
          LoginStarts(c) => task'[c].req.nonce \notin {a.nonce : a \in sent}]_vars

\* C12 amended: two login attempts send the same nonce exactly when they
\* read the same clock second and drew the same random part; every nonce in
\* flight is that of a logged attempt.
C12_NonceRepeatsOnlyForSameSecondAndRandom ==
    /\ \A a, b \in sent :
        a.nonce = b.nonce <=> (a.seconds = b.seconds /\ a.rnd = b.rnd)
    /\ \A c \in Callers :
        (task[c].pc = "wait" /\ task[c].op = "login")
        => \E a \in sent : a.nonce = task[c].req.nonce /\ a.seconds <= clock

\* attempts within one second with different random parts, and attempts in
\* different seconds with the same random part, have been made
C12_Witness ==
    /\ \E a, b \in sent : a.seconds = b.seconds /\ a.rnd # b.rnd
    /\ \E a, b \in sent : a.seconds # b.seconds /\ a.rnd = b.rnd

\* C13: a logout() called while no token is held issues no request and
\* changes nothing; called while a token is held it issues one GET, to the
\* logout path qualified with that token, and none after it.
C13_LogoutRequest ==
    [][\A c \in Callers :
          /\ LogoutStarts(c)
             => /\ token.held
                /\ task'[c].req =
                       [verb |-> "GET",
                        url |-> [stok |-> [present |-> TRUE, val |-> token.val],
                                 root |-> "web", path |-> "logout"],
                        nonce |-> ""]
                /\ token' = token
          /\ (LogoutEnds(c) /\ task[c].pc = "idle")
             => /\ ~token.held
                /\ task' = task /\ token' = token
                /\ sweep' = sweep /\ sink' = sink /\ sent' = sent
          /\ (LogoutEnds(c) /\ task[c].pc = "wait")
             => task'[c] = Idle]_vars

\* one logout() has returned without a request, another is in flight with
\* the held token
C13_Witness ==
    \E c, d \in Callers :
        /\ result[c].op = "logout" /\ result[c].resp = NoResp
        /\ task[d].pc = "wait" /\ task[d].op = "logout"
        /\ token.held /\ task[d].req.url.stok.val = token.val

(***************************************************************************)
(* Properties of concurrent use, of the catalog and of failed logins.      *)
(***************************************************************************)
LoginInFlight(c) == task[c].pc = "wait" /\ task[c].op = "login"
LoginReturned(r) == r.op = "login" /\ r.out.kind = "return"

\* C14: when a login() returns while another login() of the client is in
\* flight or has returned, the session token becomes the token of the login
\* that returns now; and once two logins have returned, the token is held
\* and is the token of one of them.
C14_LastLoginWins ==
    [][\A c, d \in Callers :
          c # d =>
            /\ (/\ LoginEnds(c)
                /\ result'[c].out.kind = "return"
                /\ LoginInFlight(d) \/ LoginReturned(result[d]))
               => token' = Tok(result'[c].out.data.token)
            /\ (LoginReturned(result'[c]) /\ LoginReturned(result'[d]))
               => /\ token'.held
                  /\ token'.val \in {result'[c].out.data.token,
                                     result'[d].out.data.token}]_vars

\* both callers' logins have returned, with different tokens, and the token
\* held is the one returned to c1
C14_Witness ==
    /\ LoginReturned(result["c1"]) /\ LoginReturned(result["c2"])
    /\ result["c1"].out.data.token = "t1"
    /\ result["c2"].out.data.token = "t2"
    /\ token = Tok("t1")

\* C15: the request of a call in flight is not changed by any step, a
\* returning login included, and the token segment of a get() request is
\* the rendering of the token held at the step that issues it.
C15_TokenReadAtCallTime ==
    [][\A c \in Callers :
          /\ (task[c].pc = "wait" /\ task'[c].pc = "wait") => task'[c] = task[c]
          /\ GetStarts(c)
             => /\ task'[c].req.url.stok \in
                       {NoStok,
                        [present |-> TRUE,
                         val |-> IF token.held THEN token.val ELSE "None"]}
                /\ task'[c].req.url.stok.val \in TokenValues \cup {"None", ""}]_vars

\* a get() request issued with token t1 is still in flight, unchanged, after
\* a login has set the token to t2
C15_Witness ==
    \E c \in Callers :
        /\ task[c].pc = "wait" /\ task[c].op = "get"
        /\ task[c].req.url.stok = [present |-> TRUE, val |-> "t1"]
        /\ token = Tok("t2")

PendingCalls == {k \in 1 .. Len(sweep.calls) : sweep.calls[k].ended = "pending"}

\* C16: at most one probe of the sweep is in flight: only the last call
\* issued can be unresolved, and it is unresolved exactly while the sweep is
\* suspended on it.
C16_OneProbeInFlight ==
    /\ Cardinality(PendingCalls) <= 1
    /\ PendingCalls \subseteq {Len(sweep.calls)}
    /\ PendingCalls # {} <=> sweep.pc = "await"
    /\ sweep.req # NoReq <=> sweep.pc = "await"

\* the third probe is in flight and the two before it have ended
C16_Witness ==
    /\ sweep.pc = "await"
    /\ Len(sweep.calls) = 3
    /\ PendingCalls = {3}

\* C17: the URL get() builds has the token segment exactly when use_stok is
\* true; the login request and topo_graph go without the segment and every
\* other endpoint operation of the client goes with it.
C17_TokenSegmentIffUseStok ==
    /\ \A u \in BOOLEAN : GetUrl(token, "misystem/status", u).stok.present <=> u
    /\ \A inv \in Invocations :
        MethodRequest(token, inv).url.stok.present <=> inv.name # "topo_graph"
    /\ \A c \in Callers :
        /\ LoginInFlight(c) => task[c].req.verb = "POST" /\ task[c].req.url.stok = NoStok
        /\ (task[c].pc = "wait" /\ task[c].op = "get")
           => (task[c].req.url.stok.present
                 <=> task[c].req.url.path # "misystem/topo_graph")

\* topo_graph is in flight without the segment while another operation is
\* in flight with the segment of the held token
C17_Witness ==
    \E c, d \in Callers :
        /\ task[c].pc = "wait" /\ task[c].req.url.path = "misystem/topo_graph"
        /\ task[c].req.url.stok = NoStok
        /\ task[d].pc = "wait" /\ task[d].req.url.path = "xqsystem/reboot"
        /\ token.held /\ task[d].req.url.stok = [present |-> TRUE, val |-> token.val]

\* C18: every probeable entry of the catalog names an operation of the
\* client and the sweep reads only attributes the client has: the sweep
\* never stands at an entry whose operation is missing and never ends in
\* AttributeError.
C18_CatalogNamesClientOperations ==
    /\ sweep.exc # "AttributeError"
    /\ (sweep.pc \in {"loop", "await"} /\ sweep.idx \in ProbeableIndex)
        => MethodOf(sweep.idx) \in ClientMethods

\* C19: a login() that ends in an exception leaves the token and the
\* requests in flight as they were.
C19_FailedLoginKeepsToken ==
    [][\A c \in Callers :
          (LoginEnds(c) /\ result'[c].out.kind = "raise")
          => /\ token' = token
             /\ \A d \in Callers \ {c} : task'[d] = task[d]
             /\ sweep' = sweep]_vars

\* the only caller holds a token from an earlier login and its last login
\* failed; a probe issued with the held token is in flight
C19_Witness ==
    /\ token.held
    /\ result["c1"].op = "login" /\ result["c1"].out.kind = "raise"
    /\ sweep.pc = "await"
    /\ sweep.req.url.stok = [present |-> TRUE, val |-> token.val]

====
